---- MODULE Spec2Model ----
(***************************************************************************)
(* Model of ivly's interactive reorder/edit session (src/src/tui.rs), the  *)
(* caller that persists its outcome (op::move_interactive) and the CLI     *)
(* move command (op::move_).                                               *)
(*                                                                         *)
(* Strings are sequences of one-character strings; Option<T> is a sequence *)
(* of length at most one (<<>> is None, <<v>> is Some(v)); Vec indices are  *)
(* 0-based as in the source, so element i of a Vec v is v[i + 1].          *)
(***************************************************************************)
EXTENDS Integers, Sequences, FiniteSets, TLC

VARIABLES
    store,      \* content of open.ron, as serialised records
    doneStore,  \* content of done.ron, as serialised records
    pre,        \* the list read_open_tasks returned when the session started
    tasks,      \* Move::tasks, the caller's list the session mutates in place
    selected,   \* Move::table_state.selected : Option<usize>
    exit,       \* Move::exit
    show_help,  \* Move::show_help
    editing,    \* Move::editing
    pc,         \* position in move_interactive / Move::run / a CLI command
    loopRes,    \* result of Move::run_loop
    runRes,     \* result of Move::run
    result,     \* result of move_interactive or of the CLI command
    altScreen,  \* the terminal is in the alternate screen
    rawMode,    \* the terminal is in raw mode
    frames,     \* number of frames drawn
    nev,        \* number of events read
    last,       \* the last event handled and the session state it was handled in
    now         \* crate::now()

vars == <<store, doneStore, pre, tasks, selected, exit, show_help, editing, pc, loopRes,
          runRes, result, altScreen, rawMode, frames, nev, last, now>>

----------------------------------------------------------------------------
(* Bounds *)

MaxInit == 3        \* longest initial open list
MaxEvents == 3      \* events read in one session
MaxCliCmds == 1     \* CLI commands run in a row
MaxNow == 3         \* latest clock value

----------------------------------------------------------------------------
(* Rust helpers *)

None == <<>>
Some(v) == <<v>>

Min(a, b) == IF a <= b THEN a ELSE b

\* usize::saturating_sub
SaturatingSub(a, b) == IF a >= b THEN a - b ELSE 0

\* Option<usize>::unwrap_or_default
UnwrapOrDefault(o) == IF o = None THEN 0 ELSE o[1]

\* Vec::remove(i), defined for i < len
VecRemove(v, i) == SubSeq(v, 1, i) \o SubSeq(v, i + 2, Len(v))

\* variant: the element is pushed at the end
VecInsert_Push(v, i, t) == Append(v, t)

\* Vec::insert(i, t), defined for i <= len
VecInsert(v, i, t) == SubSeq(v, 1, i) \o <<t>> \o SubSeq(v, i + 1, Len(v))

\* variant: the first character is removed
StrPop_Tail(s) == IF s = <<>> THEN s ELSE Tail(s)

\* String::pop
StrPop(s) == IF s = <<>> THEN s ELSE SubSeq(s, 1, Len(s) - 1)

RECURSIVE SplitAcc(_, _, _)
SplitAcc(s, cur, acc) ==
    IF s = <<>> THEN Append(acc, cur)
    ELSE IF Head(s) = "," THEN SplitAcc(Tail(s), <<>>, Append(acc, cur))
    ELSE SplitAcc(Tail(s), Append(cur, Head(s)), acc)

\* variant: empty substrings are filtered out
Split_FilterEmpty(s) == SelectSeq(SplitAcc(s, <<>>, <<>>), LAMBDA x : x # <<>>)

\* str::split(',').map(String::from).collect()
Split(s) == SplitAcc(s, <<>>, <<>>)

RECURSIVE TagFold(_, _)
TagFold(ts, s) == IF ts = <<>> THEN s ELSE TagFold(Tail(ts), s \o Head(ts) \o <<",">>)

\* variant: the trailing separator is kept
tag_csv_NoPop(ts) == TagFold(ts, <<>>)

tag_csv(ts) == StrPop(TagFold(ts, <<>>))

----------------------------------------------------------------------------
(* Task records and the persisted form *)

Ids == <<"A", "B", "C", "D", "E">>
NewIds == {"N1", "N2"}

\* variant: the new task is born finished
TodoTaskNew_Marked(id, description, t) ==
    [id |-> id, description |-> description, note |-> <<>>, created |-> t,
     tags |-> <<>>, marked |-> <<t>>]

\* Default for Task<Todo>, then TodoTask::new(description)
TodoTaskNew(id, description, t) ==
    [id |-> id, description |-> description, note |-> <<>>, created |-> t,
     tags |-> <<>>, marked |-> None]

\* the i-th task of an initial store (1-based)
InitTask(i) ==
    [id |-> Ids[i],
     description |-> <<"d">>,
     note |-> IF i % 2 = 0 THEN <<"n">> ELSE <<>>,
     created |-> 0,
     tags |-> IF i % 3 = 1 THEN <<>>
              ELSE IF i % 3 = 2 THEN << <<"x">> >>
              ELSE << <<"x">>, <<"y">> >>,
     marked |-> IF i = 2 THEN Some(1) ELSE None]

InitList(n) == [i \in 1..n |-> InitTask(i)]

\* serde: note and tags are skipped when empty
SerTask(t) ==
    [id |-> t.id, description |-> t.description,
     note |-> IF t.note = <<>> THEN None ELSE Some(t.note),
     created |-> t.created,
     tags |-> IF t.tags = <<>> THEN None ELSE Some(t.tags),
     state |-> t.marked]

\* serde(default): an absent note or tags field reads as empty
DeTask(r) ==
    [id |-> r.id, description |-> r.description,
     note |-> IF r.note = None THEN <<>> ELSE r.note[1],
     created |-> r.created,
     tags |-> IF r.tags = None THEN <<>> ELSE r.tags[1],
     marked |-> r.state]

Serialise(ts) == [i \in 1..Len(ts) |-> SerTask(ts[i])]

read_open_tasks(st) == [i \in 1..Len(st) |-> DeTask(st[i])]

\* a task of an initial done list
InitDone ==
    [id |-> "Z", description |-> <<"d">>, note |-> <<>>, created |-> 0,
     tags |-> << <<"x">> >>, completed |-> 0]

\* serde of Task<Done>: state is Done { completed }
SerDone(t) ==
    [id |-> t.id, description |-> t.description,
     note |-> IF t.note = <<>> THEN None ELSE Some(t.note),
     created |-> t.created,
     tags |-> IF t.tags = <<>> THEN None ELSE Some(t.tags),
     state |-> [completed |-> t.completed]]

DeDone(r) ==
    [id |-> r.id, description |-> r.description,
     note |-> IF r.note = None THEN <<>> ELSE r.note[1],
     created |-> r.created,
     tags |-> IF r.tags = None THEN <<>> ELSE r.tags[1],
     completed |-> r.state.completed]

SerialiseDone(ts) == [i \in 1..Len(ts) |-> SerDone(ts[i])]

read_done_tasks(st) == [i \in 1..Len(st) |-> DeDone(st[i])]

write_done_tasks(ts) == SerialiseDone(ts)

----------------------------------------------------------------------------
(* Events *)

Chars == {"q", "X", "=", "-", "1", "2", "3", "4", "5", "6", "D", "a", "?",
          "e", "n", "t", ",", "x"}
\* characters typed into a non-empty edit buffer (an empty buffer is offered
\* every character of Chars)
TypedChars == {"x", ",", "q"}
\* characters with no binding in the viewing dispatch
UnmappedChars == {","}
OtherCodes == {"Esc"}

Key(k, c) == [type |-> "Key", kind |-> "Press", k |-> k, c |-> c]
Ch(c) == Key("Char", c)
NonPress == {[type |-> "Key", kind |-> "Release", k |-> "Char", c |-> "q"],
             [type |-> "Resize", kind |-> "", k |-> "", c |-> ""]}

EditNone == [kind |-> "None", idx |-> 0, val |-> <<>>]
Edit(kind, idx, val) == [kind |-> kind, idx |-> idx, val |-> val]

\* variant: the edit mode is never consulted by the dispatch
is_editing_Never == FALSE

\* Editing::is_editing
is_editing == editing.kind # "None"

Snapshot(ev) ==
    [ev |-> ev, tasks |-> tasks, selected |-> selected, editing |-> editing,
     show_help |-> show_help, exit |-> exit, done |-> doneStore, now |-> now]

NoEvent == [type |-> "None", kind |-> "", k |-> "", c |-> ""]

----------------------------------------------------------------------------
(* The session: op::move_interactive, Move::new, Move::run *)

SessionInit ==
    /\ \E n \in 0..MaxInit : store = Serialise(InitList(n))
    /\ doneStore = <<>>
    /\ pre = read_open_tasks(store)
    /\ tasks = pre
    /\ selected = Some(0)
    /\ exit = "Continue"
    /\ show_help = FALSE
    /\ editing = EditNone
    /\ pc = "term_init"
    /\ loopRes = "None"
    /\ runRes = "None"
    /\ result = "None"
    /\ altScreen = FALSE
    /\ rawMode = FALSE
    /\ frames = 0
    /\ nev = 0
    /\ now = 2
    /\ last = Snapshot(NoEvent)

UnchangedSession == UNCHANGED <<tasks, selected, exit, show_help, editing>>
UnchangedTerm == UNCHANGED <<altScreen, rawMode>>

\* term_init succeeds
TermInitOk ==
    /\ pc = "term_init"
    /\ altScreen' = TRUE
    /\ rawMode' = TRUE
    /\ pc' = "draw"
    /\ UNCHANGED <<store, doneStore, pre, loopRes, runRes, result, frames, nev, last, now>>
    /\ UnchangedSession

\* term_init fails at EnterAlternateScreen (1), enable_raw_mode (2) or
\* Terminal::new (3); the ? returns the error from Move::run at once
TermInitFail ==
    /\ pc = "term_init"
    /\ \E stage \in 1..3 :
        /\ altScreen' = (stage >= 2)
        /\ rawMode' = (stage >= 3)
    /\ runRes' = "Err"
    /\ pc' = "returned"
    /\ UNCHANGED <<store, doneStore, pre, loopRes, result, frames, nev, last, now>>
    /\ UnchangedSession

\* variant: a frame is drawn only when the list changed
Draw_Skip ==
    /\ pc = "draw"
    /\ frames' = IF tasks = last.tasks THEN frames ELSE frames + 1
    /\ pc' = "read"
    /\ UNCHANGED <<store, doneStore, pre, loopRes, runRes, result, nev, last, now>>
    /\ UnchangedSession /\ UnchangedTerm

\* terminal.draw(|frame| self.render_frame(frame))?
Draw ==
    /\ pc = "draw"
    /\ frames' = frames + 1
    /\ pc' = "read"
    /\ UNCHANGED <<store, doneStore, pre, loopRes, runRes, result, nev, last, now>>
    /\ UnchangedSession /\ UnchangedTerm

DrawFail ==
    /\ pc = "draw"
    /\ loopRes' = "Err"
    /\ pc' = "term_restore"
    /\ UNCHANGED <<store, doneStore, pre, runRes, result, frames, nev, last, now>>
    /\ UnchangedSession /\ UnchangedTerm

\* event::read()? fails
ReadFail ==
    /\ pc = "read"
    /\ loopRes' = "Err"
    /\ pc' = "term_restore"
    /\ UNCHANGED <<store, doneStore, pre, runRes, result, frames, nev, last, now>>
    /\ UnchangedSession /\ UnchangedTerm

----------------------------------------------------------------------------
(* Move::handle_events: one event is read and dispatched *)

tlen == Len(tasks)

\* everything handle_events leaves alone, and the loop condition of run_loop
\* evaluated on the new exit value
AfterEvent(ev) ==
    /\ nev' = nev + 1
    /\ last' = Snapshot(ev)
    /\ pc' = IF exit' = "Continue" THEN "draw" ELSE "term_restore"
    /\ loopRes' = IF exit' = "Continue" THEN loopRes ELSE "Ok"
    /\ UNCHANGED <<store, doneStore, pre, runRes, result, frames, now>>
    /\ UnchangedTerm

\* an index panic unwinds out of run_loop and Move::run
Panicked(ev) ==
    /\ nev' = nev + 1
    /\ last' = Snapshot(ev)
    /\ pc' = "panicked"
    /\ UNCHANGED <<store, doneStore, pre, loopRes, runRes, result, frames, now>>
    /\ UnchangedTerm

Viewing == pc = "read" /\ nev < MaxEvents /\ ~is_editing
InEditing == pc = "read" /\ nev < MaxEvents /\ is_editing

\* KeyCode::Char('q') => self.exit = Exit::Save
KeySave ==
    /\ Viewing
    /\ exit' = "Save"
    /\ UNCHANGED <<tasks, selected, show_help, editing>>
    /\ AfterEvent(Ch("q"))

\* KeyCode::Char('X') => self.exit = Exit::Forget
KeyForget ==
    /\ Viewing
    /\ exit' = "Forget"
    /\ UNCHANGED <<tasks, selected, show_help, editing>>
    /\ AfterEvent(Ch("X"))

UpTarget(sel) == SaturatingSub(UnwrapOrDefault(sel), 1)

KeyUp ==
    /\ Viewing
    /\ selected' = Some(UpTarget(selected))
    /\ UNCHANGED <<tasks, exit, show_help, editing>>
    /\ AfterEvent(Key("Up", ""))

\* variant: the clamp to the list length is missing
DownTarget_NoClamp(sel, n) == UnwrapOrDefault(sel) + 1

DownTarget(sel, n) == Min(UnwrapOrDefault(sel) + 1, n)

KeyDown ==
    /\ Viewing
    /\ selected' = Some(DownTarget(selected, tlen))
    /\ UNCHANGED <<tasks, exit, show_help, editing>>
    /\ AfterEvent(Key("Down", ""))

KeyHome ==
    /\ Viewing
    /\ selected' = Some(0)
    /\ UNCHANGED <<tasks, exit, show_help, editing>>
    /\ AfterEvent(Key("Home", ""))

EndTarget(n) == SaturatingSub(n, 1)

KeyEnd ==
    /\ Viewing
    /\ selected' = Some(EndTarget(tlen))
    /\ UNCHANGED <<tasks, exit, show_help, editing>>
    /\ AfterEvent(Key("End", ""))

\* variants: '=' targets its own index; '-' targets the next index only
EarlierBefore_Stay(i) == i
LaterBefore_PlusOne(i, n) == Min(i + 1, n)

\* the closures handed to move_ by '=', '-' and '1'..'6'
EarlierBefore(i) == SaturatingSub(i, 1)
LaterBefore(i, n) == Min(i + 2, n)
Digits == <<"1", "2", "3", "4", "5", "6">>
DigitBefore(d, n) == Min(d - 1, n)

\* variant: the adjustment also fires when the target is the index itself
AdjustBefore_Le(i, before) == IF i <= before THEN SaturatingSub(before, 1) ELSE before

\* Move::move_: the adjustment of the insertion index
AdjustBefore(i, before) == IF i < before THEN SaturatingSub(before, 1) ELSE before

\* Move::move_ with `before` already applied to the selected index
move_(ev, before) ==
    IF selected = None
    THEN /\ UNCHANGED <<tasks, selected, exit, show_help, editing>>
         /\ AfterEvent(ev)
    ELSE LET i == selected[1]
             b == AdjustBefore(i, before)
         IN IF i >= Len(tasks)
            THEN \* self.tasks.remove(i) panics
                 /\ UNCHANGED <<tasks, selected, exit, show_help, editing>>
                 /\ Panicked(ev)
            ELSE LET t == tasks[i + 1]
                     r == VecRemove(tasks, i)
                 IN IF b > Len(r)
                    THEN \* self.tasks.insert(before, t) panics
                         /\ tasks' = r
                         /\ UNCHANGED <<selected, exit, show_help, editing>>
                         /\ Panicked(ev)
                    ELSE /\ tasks' = VecInsert(r, b, t)
                         /\ selected' = Some(b)
                         /\ UNCHANGED <<exit, show_help, editing>>
                         /\ AfterEvent(ev)

KeyShiftEarlier ==
    /\ Viewing
    /\ move_(Ch("="), EarlierBefore(UnwrapOrDefault(selected)))

KeyShiftLater ==
    /\ Viewing
    /\ move_(Ch("-"), LaterBefore(UnwrapOrDefault(selected), tlen))

KeyDigit ==
    /\ Viewing
    /\ \E d \in 1..6 : move_(Ch(Digits[d]), DigitBefore(d, tlen))

\* the selection left by the delete key
DeleteSelected(i) == SaturatingSub(i, 0)

KeyDelete ==
    /\ Viewing
    /\ IF selected = None
       THEN /\ UNCHANGED <<tasks, selected, exit, show_help, editing>>
            /\ AfterEvent(Ch("D"))
       ELSE LET i == selected[1]
            IN IF i >= Len(tasks)
               THEN \* self.tasks.remove(i) panics
                    /\ UNCHANGED <<tasks, selected, exit, show_help, editing>>
                    /\ Panicked(Ch("D"))
               ELSE /\ tasks' = VecRemove(tasks, i)
                    /\ selected' = Some(DeleteSelected(i))
                    /\ UNCHANGED <<exit, show_help, editing>>
                    /\ AfterEvent(Ch("D"))

\* self.tasks.get(idx).map(|t| ..).unwrap_or_default(), idx the selected
\* index or 0
start_editing_desc(ts, sel) ==
    LET idx == UnwrapOrDefault(sel)
    IN Edit("Desc", idx, IF idx < Len(ts) THEN ts[idx + 1].description ELSE <<>>)

start_editing_note(ts, sel) ==
    LET idx == UnwrapOrDefault(sel)
    IN Edit("Note", idx, IF idx < Len(ts) THEN ts[idx + 1].note ELSE <<>>)

start_editing_tags(ts, sel) ==
    LET idx == UnwrapOrDefault(sel)
    IN Edit("Tags", idx, IF idx < Len(ts) THEN tag_csv(ts[idx + 1].tags) ELSE <<>>)

KeyAdd ==
    /\ Viewing
    /\ \E id \in NewIds :
        /\ tasks' = Append(tasks, TodoTaskNew(id, <<>>, now))
        /\ selected' = Some(Len(tasks))
        /\ editing' = start_editing_desc(tasks', selected')
    /\ UNCHANGED <<exit, show_help>>
    /\ AfterEvent(Ch("a"))

KeyHelp ==
    /\ Viewing
    /\ show_help' = ~show_help
    /\ UNCHANGED <<tasks, selected, exit, editing>>
    /\ AfterEvent(Ch("?"))

KeyEditDesc ==
    /\ Viewing
    /\ editing' = start_editing_desc(tasks, selected)
    /\ UNCHANGED <<tasks, selected, exit, show_help>>
    /\ AfterEvent(Ch("e"))

KeyEditNote ==
    /\ Viewing
    /\ editing' = start_editing_note(tasks, selected)
    /\ UNCHANGED <<tasks, selected, exit, show_help>>
    /\ AfterEvent(Ch("n"))

KeyEditTags ==
    /\ Viewing
    /\ editing' = start_editing_tags(tasks, selected)
    /\ UNCHANGED <<tasks, selected, exit, show_help>>
    /\ AfterEvent(Ch("t"))

\* the `_ => {}` arm of the viewing dispatch
KeyUnmapped ==
    /\ Viewing
    /\ UnchangedSession
    /\ \E ev \in {Ch(c) : c \in UnmappedChars}
                 \cup {Key(k, "") : k \in OtherCodes \cup {"Enter"}} :
            AfterEvent(ev)

\* variant: the kind of a key event is not looked at
EventNotPress_AnyKind ==
    /\ pc = "read" /\ nev < MaxEvents
    /\ \E ev \in NonPress :
        /\ exit' = IF ~is_editing /\ ev.type = "Key" /\ ev.k = "Char" /\ ev.c = "q"
                   THEN "Save" ELSE exit
        /\ UNCHANGED <<tasks, selected, show_help, editing>>
        /\ AfterEvent(ev)

\* an event that is not a key press is dropped in both modes
EventNotPress ==
    /\ pc = "read" /\ nev < MaxEvents
    /\ UnchangedSession
    /\ \E ev \in NonPress : AfterEvent(ev)

----------------------------------------------------------------------------
(* Move::handle_editing *)

\* variant: a tag commit extends the tag list instead of replacing it
CommitTask_TagsAppend(t, ed) ==
    IF ed.kind = "Desc" THEN [t EXCEPT !.description = ed.val]
    ELSE IF ed.kind = "Note" THEN [t EXCEPT !.note = ed.val]
    ELSE IF ed.kind = "Tags" THEN [t EXCEPT !.tags = @ \o Split(ed.val)]
    ELSE t

\* variant: a description commit lands in the note
CommitTask_DescToNote(t, ed) ==
    IF ed.kind \in {"Desc", "Note"} THEN [t EXCEPT !.note = ed.val]
    ELSE IF ed.kind = "Tags" THEN [t EXCEPT !.tags = Split(ed.val)]
    ELSE t

\* the record an edit commit leaves at the target index
CommitTask(t, ed) ==
    IF ed.kind = "Desc" THEN [t EXCEPT !.description = ed.val]
    ELSE IF ed.kind = "Note" THEN [t EXCEPT !.note = ed.val]
    ELSE IF ed.kind = "Tags" THEN [t EXCEPT !.tags = Split(ed.val)]
    ELSE t

\* KeyCode::Enter: self.editing.take(), then tasks.get_mut(idx)
EditEnter ==
    /\ InEditing
    /\ editing' = EditNone
    /\ tasks' = IF editing.idx < Len(tasks)
                THEN [tasks EXCEPT ![editing.idx + 1] = CommitTask(@, editing)]
                ELSE tasks
    /\ UNCHANGED <<selected, exit, show_help>>
    /\ AfterEvent(Key("Enter", ""))

\* variant: Backspace on an empty buffer cancels the edit
pop_char_Cancel(ed) ==
    IF ed.val = <<>> THEN [kind |-> "None", idx |-> 0, val |-> <<>>]
    ELSE [ed EXCEPT !.val = StrPop(@)]

\* Editing::pop_char
pop_char(ed) == [ed EXCEPT !.val = StrPop(@)]

EditBackspace ==
    /\ InEditing
    /\ editing' = pop_char(editing)
    /\ UNCHANGED <<tasks, selected, exit, show_help>>
    /\ AfterEvent(Key("Backspace", ""))

\* Editing::push_char
push_char(ed, c) == [ed EXCEPT !.val = Append(@, c)]

EditChar ==
    /\ InEditing
    /\ \E c \in (IF editing.val = <<>> THEN Chars ELSE TypedChars) :
        /\ editing' = push_char(editing, c)
        /\ UNCHANGED <<tasks, selected, exit, show_help>>
        /\ AfterEvent(Ch(c))

\* the `_ => {}` arm of handle_editing
EditOther ==
    /\ InEditing
    /\ UnchangedSession
    /\ \E k \in OtherCodes \cup {"Down", "Home"} : AfterEvent(Key(k, ""))

----------------------------------------------------------------------------
(* Leaving the session: term_restore, the result of Move::run and the write
   of op::move_interactive *)

\* variant: Save is mapped to false
RunOutcome_SaveFalse(lr, ex) ==
    IF lr = "Err" THEN "Err"
    ELSE IF ex = "Continue" THEN "Ok_true" ELSE "Ok_false"

\* res.map(|_| match self.exit { Continue | Save => true, Forget => false })
RunOutcome(lr, ex) ==
    IF lr = "Err" THEN "Err"
    ELSE IF ex \in {"Continue", "Save"} THEN "Ok_true" ELSE "Ok_false"

TermRestoreOk ==
    /\ pc = "term_restore"
    /\ altScreen' = FALSE
    /\ rawMode' = FALSE
    /\ runRes' = RunOutcome(loopRes, exit)
    /\ pc' = "returned"
    /\ UNCHANGED <<store, doneStore, pre, loopRes, result, frames, nev, last, now>>
    /\ UnchangedSession

\* term_restore fails at LeaveAlternateScreen (1) or disable_raw_mode (2);
\* the ? returns the error from Move::run
TermRestoreFail ==
    /\ pc = "term_restore"
    /\ \E stage \in 1..2 :
        /\ altScreen' = IF stage = 1 THEN altScreen ELSE FALSE
        /\ rawMode' = rawMode
    /\ runRes' = "Err"
    /\ pc' = "returned"
    /\ UNCHANGED <<store, doneStore, pre, loopRes, result, frames, nev, last, now>>
    /\ UnchangedSession

\* io::write_open_tasks
write_open_tasks(ts) == Serialise(ts)

\* variant: the list is written whatever the outcome
ShouldWrite_Always(rr) == rr \in {"Ok_true", "Ok_false"}

\* let save = tui::Move::new(&mut tasks).run()?; if save { write } else { .. }
ShouldWrite(rr) == rr = "Ok_true"

MoveInteractiveReturn ==
    /\ pc = "returned"
    /\ IF runRes = "Err"
       THEN /\ result' = "Err" /\ UNCHANGED store
       ELSE IF ShouldWrite(runRes)
       THEN \/ /\ store' = write_open_tasks(tasks) /\ result' = "Ok"
            \/ /\ UNCHANGED store /\ result' = "Err"
       ELSE /\ result' = "Ok" /\ UNCHANGED store
    /\ pc' = "done"
    /\ UNCHANGED <<doneStore, pre, loopRes, runRes, frames, nev, last, now>>
    /\ UnchangedSession /\ UnchangedTerm

----------------------------------------------------------------------------
(* The command line: each command is one run of the program over the store *)

CliInit ==
    /\ \E n \in 0..MaxInit : store = Serialise(InitList(n))
    /\ doneStore \in {<<>>, SerialiseDone(<<InitDone>>)}
    /\ pre = read_open_tasks(store)
    /\ tasks = pre
    /\ selected = Some(0)
    /\ exit = "Continue"
    /\ show_help = FALSE
    /\ editing = EditNone
    /\ pc = "cli"
    /\ loopRes = "None"
    /\ runRes = "None"
    /\ result = "None"
    /\ altScreen = FALSE
    /\ rawMode = FALSE
    /\ frames = 0
    /\ nev = 0
    /\ now = 2
    /\ last = Snapshot(NoEvent)

CliMoveCmd(n, m) == [type |-> "CliMove", task_num |-> n, insert_before |-> m]

\* task numbers given on the command line: every position of the stored
\* list, and one number on either side of the range
TaskNums(st) == 0..(Len(st) + 1)

\* translate_task_num: the range check
InTaskRange(ts, num) == num \in 1..Len(ts)

\* variant: the insertion index is not adjusted for the removal
CliAdjustBefore_None(task, before) == before

\* op::move_: the adjustment of the insertion index
CliAdjustBefore(task, before) ==
    IF task < before THEN SaturatingSub(before, 1) ELSE before

\* the list op::move_ writes for 0-based task and (unadjusted) before
CliMoved(ts, task, before) ==
    VecInsert(VecRemove(ts, task), CliAdjustBefore(task, before), ts[task + 1])

\* what a CLI command leaves alone
CliFrame(cmd, read) ==
    /\ pre' = read
    /\ last' = [Snapshot(cmd) EXCEPT !.tasks = read]
    /\ nev' = nev + 1
    /\ UNCHANGED <<selected, exit, show_help, editing, pc, loopRes, runRes,
                   frames>>
    /\ UnchangedTerm

\* op::move_(dir, task_num, insert_before)
CliMove ==
    /\ pc = "cli" /\ nev < MaxCliCmds
    /\ \E n \in TaskNums(store), m \in TaskNums(store) :
        LET read == read_open_tasks(store)
        IN /\ CliFrame(CliMoveCmd(n, m), read)
           /\ UNCHANGED <<doneStore, now>>
           /\ IF ~InTaskRange(read, n) \/ ~InTaskRange(read, m)
              THEN /\ result' = "Err" /\ tasks' = read /\ UNCHANGED store
              ELSE LET moved == CliMoved(read, n - 1, m - 1)
                       before == CliAdjustBefore(n - 1, m - 1)
                   IN /\ tasks' = moved
                      /\ \/ \* write_open_tasks fails
                            /\ result' = "Err" /\ UNCHANGED store
                         \/ /\ store' = write_open_tasks(moved)
                            \* (&tasks[before], &tasks[before + 1])
                            /\ result' = IF before + 1 < Len(moved)
                                         THEN "Ok" ELSE "Panic"

\* TodoTask::finish: stamps the marker only when there is none
finish_Restamp(t, clock) == [t EXCEPT !.marked = Some(clock)]
finish(t, clock) ==
    IF t.marked = None THEN [t EXCEPT !.marked = Some(clock)] ELSE t

is_finished(t) == t.marked # None

\* TodoTask::complete: the done record of an open one
complete_StampNow(t, clock) ==
    [id |-> t.id, description |-> t.description, note |-> t.note,
     created |-> t.created, tags |-> t.tags, completed |-> clock]
complete(t, clock) ==
    [id |-> t.id, description |-> t.description, note |-> t.note,
     created |-> t.created, tags |-> t.tags,
     completed |-> IF t.marked = None THEN clock ELSE t.marked[1]]

\* variant: the done list is left in the order it was built
SortDone_None(s) == s

\* DoneTasks::sort: stable, most recently completed first
RECURSIVE SortDone(_)
SortDone(s) ==
    IF s = <<>> THEN <<>>
    ELSE LET r == SortDone(SubSeq(s, 1, Len(s) - 1))
             x == s[Len(s)]
             NotBefore(e) == e.completed >= x.completed
             Before(e) == e.completed < x.completed
         IN SelectSeq(r, NotBefore) \o <<x>> \o SelectSeq(r, Before)

\* Task::add_tag and Task::remove_tag
add_tag(tags, tag) ==
    IF \E i \in 1..Len(tags) : tags[i] = tag THEN tags ELSE Append(tags, tag)

remove_tag(tags, tag) ==
    LET Keep(e) == e # tag IN SelectSeq(tags, Keep)

\* FilterTag::Add and FilterTag::Neg
AddTag(tag) == [neg |-> FALSE, tag |-> tag]
NegTag(tag) == [neg |-> TRUE, tag |-> tag]

\* the tag loop of op::edit on an open task
RECURSIVE EditOpenTags(_, _)
EditOpenTags(tags, fts) ==
    IF fts = <<>> THEN tags
    ELSE EditOpenTags(IF fts[1].neg THEN remove_tag(tags, fts[1].tag)
                      ELSE add_tag(tags, fts[1].tag),
                      Tail(fts))

\* the tag loop of op::edit on a done task
RECURSIVE EditDoneTags(_, _)
EditDoneTags(tags, fts) ==
    IF fts = <<>> THEN tags
    ELSE EditDoneTags(add_tag(tags, fts[1].tag), Tail(fts))

\* the description and note assignments of op::edit
EditFields(t, description, note) ==
    [t EXCEPT !.description = IF description = None THEN @ ELSE description[1],
              !.note = IF note = None THEN @ ELSE note[1]]

EditOpenTask_Rebuild(t, a) ==
    [EditFields(t, a.description, a.note)
        EXCEPT !.tags = EditOpenTags(@, a.tags), !.marked = None]
EditOpenTask(t, a) ==
    [EditFields(t, a.description, a.note) EXCEPT !.tags = EditOpenTags(@, a.tags)]

EditDoneTask(t, a) ==
    [EditFields(t, a.description, a.note) EXCEPT !.tags = EditDoneTags(@, a.tags)]

\* position of the first element with the id, 0 when there is none
FindId(ts, id) ==
    IF \E i \in 1..Len(ts) : ts[i].id = id
    THEN CHOOSE i \in 1..Len(ts) :
            ts[i].id = id /\ \A j \in 1..(i - 1) : ts[j].id # id
    ELSE 0

\* arguments of the edit command
EditIds == {"A", "B", "Z", "Q"}
EditArgs ==
    { [description |-> Some(<<"e">>), note |-> None, tags |-> <<>>],
      [description |-> None, note |-> Some(<<"m">>), tags |-> <<>>],
      [description |-> None, note |-> None,
       tags |-> <<AddTag(<<"z">>), NegTag(<<"x">>)>>],
      [description |-> Some(<<"e">>), note |-> Some(<<>>),
       tags |-> <<AddTag(<<"x">>), NegTag(<<"y">>)>>] }

CliFinishCmd(tn) == [type |-> "CliFinish", task_num |-> tn]
CliSweepCmd == [type |-> "CliSweep"]
CliBumpCmd(ns) == [type |-> "CliBump", task_num |-> ns]
CliEditCmd(id, a) == [type |-> "CliEdit", id |-> id, args |-> a]

\* op::finish: the task number used when none is given
FirstUnfinished(ts) ==
    IF \E i \in 1..Len(ts) : ~is_finished(ts[i])
    THEN Some((CHOOSE i \in 1..Len(ts) :
                 ~is_finished(ts[i]) /\ \A j \in 1..(i - 1) : is_finished(ts[j])) - 1)
    ELSE None

FinishNum(ts, tn) ==
    IF tn = None THEN UnwrapOrDefault(FirstUnfinished(ts)) + 1 ELSE tn[1]

\* op::finish(dir, task_num), run when the clock reads clock
CliFinish ==
    /\ pc = "cli" /\ nev < MaxCliCmds
    /\ \E tn \in {None} \cup {Some(n) : n \in TaskNums(store)},
          clock \in now..MaxNow :
        LET read == read_open_tasks(store)
            num == FinishNum(read, tn)
        IN /\ CliFrame(CliFinishCmd(tn), read)
           /\ UNCHANGED doneStore
           /\ now' = clock
           /\ IF ~InTaskRange(read, num)
              THEN /\ result' = "Err" /\ tasks' = read /\ UNCHANGED store
              ELSE LET fin == [read EXCEPT ![num] = finish(@, clock)]
                   IN /\ tasks' = fin
                      /\ \/ /\ result' = "Err" /\ UNCHANGED store
                         \/ /\ store' = write_open_tasks(fin)
                            /\ result' = "Ok"

\* op::sweep(dir)
CliSweep ==
    /\ pc = "cli" /\ nev < MaxCliCmds
    /\ LET read == read_open_tasks(store)
           done == read_done_tasks(doneStore)
           Finished(t) == is_finished(t)
           Unfinished(t) == ~is_finished(t)
           swept == SelectSeq(read, Finished)
           open == SelectSeq(read, Unfinished)
           sorted == SortDone(done \o [i \in 1..Len(swept) |->
                                          complete(swept[i], now)])
       IN /\ CliFrame(CliSweepCmd, read)
          /\ UNCHANGED now
          /\ tasks' = open
          /\ \/ \* write_done_tasks fails
                /\ result' = "Err" /\ UNCHANGED <<store, doneStore>>
             \/ \* write_open_tasks fails
                /\ doneStore' = write_done_tasks(sorted)
                /\ result' = "Err" /\ UNCHANGED store
             \/ /\ doneStore' = write_done_tasks(sorted)
                /\ store' = write_open_tasks(open)
                /\ result' = "Ok"

\* the numbers of a set from the largest to the smallest
RECURSIVE Descending(_)
Descending(S) ==
    IF S = {} THEN <<>>
    ELSE LET m == CHOOSE x \in S : \A y \in S : y <= x
         IN <<m>> \o Descending(S \ {m})

\* the numbers of a set from the smallest to the largest
RECURSIVE Ascending(_)
Ascending(S) ==
    IF S = {} THEN <<>>
    ELSE LET m == CHOOSE x \in S : \A y \in S : x <= y
         IN <<m>> \o Ascending(S \ {m})

\* variant: the numbers are bumped from the smallest to the largest
SortDedupRev_NoRev(ns) == Ascending({ns[i] : i \in 1..Len(ns)})

\* Cmd::Bump: task_num.sort_unstable(); task_num.dedup(); .into_iter().rev()
SortDedupRev(ns) == Descending({ns[i] : i \in 1..Len(ns)})

\* op::bump: tasks.remove(index) and tasks.push(task), for a number in range
BumpOne(ts, n) == Append(VecRemove(ts, n - 1), ts[n])

\* the loop of Cmd::Bump: one op::bump per number, each reading the store
\* the one before wrote; the ? ends it at a number out of range or at a
\* failed write, which is the failAt-th one (none fails when failAt is 0).
\* stored is the list in the store, mem the list of the last op::bump.
RECURSIVE BumpRun(_, _, _)
BumpRun(stored, nums, failAt) ==
    IF nums = <<>> THEN [stored |-> stored, mem |-> stored, result |-> "Ok"]
    ELSE IF ~InTaskRange(stored, nums[1])
    THEN [stored |-> stored, mem |-> stored, result |-> "Err"]
    ELSE IF failAt = 1
    THEN [stored |-> stored, mem |-> BumpOne(stored, nums[1]), result |-> "Err"]
    ELSE BumpRun(BumpOne(stored, nums[1]), Tail(nums), failAt - 1)

\* task numbers given to the bump command: none, one number (in range or
\* next to it), or two numbers in range, in any order, equal or not
BumpArgs(st) ==
    {<<>>} \cup {<<n>> : n \in TaskNums(st)}
           \cup {<<a, b>> : a \in 1..Len(st), b \in 1..Len(st)}

\* Cmd::Bump { task_num } calling op::bump(dir, task_num) for each number
CliBump ==
    /\ pc = "cli" /\ nev < MaxCliCmds
    /\ \E ns \in BumpArgs(store) :
        \E failAt \in 0..Len(SortDedupRev(ns)) :
            LET read == read_open_tasks(store)
                run == BumpRun(read, SortDedupRev(ns), failAt)
            IN /\ CliFrame(CliBumpCmd(ns), read)
               /\ UNCHANGED <<doneStore, now>>
               /\ tasks' = run.mem
               /\ store' = IF run.stored = read THEN store
                           ELSE write_open_tasks(run.stored)
               /\ result' = run.result

\* op::edit(dir, id, description, note, tags)
CliEdit ==
    /\ pc = "cli" /\ nev < MaxCliCmds
    /\ \E id \in EditIds, a \in EditArgs :
        LET read == read_open_tasks(store)
            done == read_done_tasks(doneStore)
            i == FindId(read, id)
            j == FindId(done, id)
        IN /\ CliFrame(CliEditCmd(id, a), read)
           /\ UNCHANGED now
           /\ IF i # 0
              THEN LET edited == [read EXCEPT ![i] = EditOpenTask(@, a)]
                   IN /\ tasks' = edited
                      /\ UNCHANGED doneStore
                      /\ \/ /\ result' = "Err" /\ UNCHANGED store
                         \/ /\ store' = write_open_tasks(edited)
                            /\ result' = "Ok"
              ELSE /\ tasks' = read
                   /\ UNCHANGED store
                   /\ IF j # 0
                      THEN \/ /\ result' = "Err" /\ UNCHANGED doneStore
                           \/ /\ doneStore' = write_done_tasks(
                                     [done EXCEPT ![j] = EditDoneTask(@, a)])
                              /\ result' = "Ok"
                      ELSE /\ result' = "Err" /\ UNCHANGED doneStore

Init == SessionInit \/ CliInit

Next ==
    \/ TermInitOk \/ TermInitFail \/ Draw \/ DrawFail \/ ReadFail
    \/ KeySave \/ KeyForget \/ KeyUp \/ KeyDown \/ KeyHome \/ KeyEnd
    \/ KeyShiftEarlier \/ KeyShiftLater \/ KeyDigit \/ KeyDelete \/ KeyAdd
    \/ KeyHelp \/ KeyEditDesc \/ KeyEditNote \/ KeyEditTags \/ KeyUnmapped
    \/ EventNotPress \/ EditEnter \/ EditBackspace \/ EditChar \/ EditOther
    \/ TermRestoreOk \/ TermRestoreFail \/ MoveInteractiveReturn
    \/ CliMove \/ CliFinish \/ CliSweep \/ CliBump \/ CliEdit

Spec == Init /\ [][Next]_vars

----------------------------------------------------------------------------
(* Vocabulary of the properties *)

InSession == pc # "cli"

\* the last event was a press of key `ev` dispatched in Viewing mode
PressedInViewing(ev) ==
    /\ InSession
    /\ last.ev = ev
    /\ last.editing.kind = "None"

\* the cursor was on record i of the list when the last event arrived
CursorWasOn(i) ==
    /\ last.selected = Some(i)
    /\ i < Len(last.tasks)

\* s with the elements at the 0-based positions i and j exchanged
Swap(s, i, j) ==
    [k \in 1..Len(s) |-> IF k = i + 1 THEN s[j + 1]
                         ELSE IF k = j + 1 THEN s[i + 1] ELSE s[k]]

\* Move::run has handed control back (or the session was aborted by a panic)
RunLeft == pc \in {"returned", "done", "panicked"}

TaskA == InitTask(1)
TaskB == InitTask(2)
TaskC == InitTask(3)

----------------------------------------------------------------------------
(* Properties *)

\* C1: after a session that ends with the discard key 'X', the list the
\* caller holds equals the list it held before the session started.
C1_DiscardRestoresList ==
    (InSession /\ exit = "Forget" /\ pc \in {"returned", "done"}) => tasks = pre

\* C2: the persisted open-task store is not written during a session nor
\* after a session that ends with the discard key: its content is the
\* pre-session content in every state except after a Save outcome.
C2_StoreUntouchedUnlessSave ==
    InSession =>
        /\ (pc # "done" \/ exit = "Forget" \/ runRes # "Ok_true")
              => store = Serialise(pre)
        /\ (exit = "Forget" /\ pc \in {"returned", "done"} /\ runRes # "Err")
              => runRes = "Ok_false"

C2_Witness ==
    /\ InSession /\ pc = "done" /\ exit = "Forget" /\ result = "Ok"
    /\ tasks # pre
    /\ store = Serialise(pre)

\* C3: 'q' pressed in Viewing mode sets the Save outcome; Move::run then
\* returns true, and the store move_interactive writes is the serialised
\* final in-memory list, with no edit buffer pending.
C3_SavePersistsFinalList ==
    /\ PressedInViewing(Ch("q")) =>
          /\ exit = "Save" /\ tasks = last.tasks /\ editing = EditNone
    /\ (InSession /\ exit = "Save") =>
          /\ editing = EditNone
          /\ (pc \in {"returned", "done"} /\ runRes # "Err") => runRes = "Ok_true"
          /\ (pc = "done" /\ result = "Ok") =>
                /\ store = Serialise(tasks)
                /\ read_open_tasks(store) = tasks

C3_Witness ==
    /\ InSession /\ pc = "done" /\ exit = "Save" /\ result = "Ok"
    /\ Len(tasks) = 3 /\ tasks[1].id = "A"
    /\ pre[1].tags = <<>> /\ tasks[1].tags = << <<>> >>
    /\ store = Serialise(tasks)
    /\ store # Serialise(pre)

\* C4: in every state of a session the cursor is between 0 and the length
\* of the list, inclusive.
C4_CursorInRange ==
    InSession => /\ selected # None
                 /\ 0 <= selected[1]
                 /\ selected[1] <= Len(tasks)

C4_Witness ==
    /\ PressedInViewing(Ch("D"))
    /\ CursorWasOn(Len(last.tasks) - 1)
    /\ Len(tasks) = 2
    /\ selected = Some(Len(tasks))

\* C5: no key sequence makes a list removal or insertion of the session use
\* an index outside the list (no index panic is reachable).
C5_NoIndexPanic == pc # "panicked"

\* C6: whenever Move::run has handed control back, the terminal has left the
\* alternate screen and raw mode is disabled.
C6_TerminalRestored == RunLeft => (~altScreen /\ ~rawMode)

\* C7: '=' in Viewing mode with the cursor on record i: for i >= 1 the
\* records at i-1 and i are swapped and the cursor becomes i-1; for i = 0
\* the list and the cursor are unchanged.
C7_ShiftEarlier ==
    \A i \in 0..(MaxInit + MaxEvents) :
        (PressedInViewing(Ch("=")) /\ CursorWasOn(i)) =>
            /\ pc # "panicked"
            /\ i >= 1 => /\ tasks = Swap(last.tasks, i - 1, i)
                         /\ selected = Some(i - 1)
            /\ i = 0 => /\ tasks = last.tasks
                        /\ selected = Some(0)

C7_Witness ==
    /\ PressedInViewing(Ch("="))
    /\ last.tasks = <<TaskA, TaskB, TaskC>> /\ last.selected = Some(2)
    /\ tasks = <<TaskA, TaskC, TaskB>> /\ selected = Some(1)

\* C8: '-' in Viewing mode with the cursor on record i: for i + 1 < len the
\* records at i and i+1 are swapped and the cursor becomes i+1; for
\* i = len-1 the list and the cursor are unchanged.
C8_ShiftLater ==
    \A i \in 0..(MaxInit + MaxEvents) :
        (PressedInViewing(Ch("-")) /\ CursorWasOn(i)) =>
            /\ pc # "panicked"
            /\ i + 1 < Len(last.tasks) => /\ tasks = Swap(last.tasks, i, i + 1)
                                          /\ selected = Some(i + 1)
            /\ i + 1 = Len(last.tasks) => /\ tasks = last.tasks
                                          /\ selected = Some(i)

C8_Witness ==
    /\ PressedInViewing(Ch("-"))
    /\ last.tasks = <<TaskA, TaskB, TaskC>> /\ last.selected = Some(0)
    /\ tasks = <<TaskB, TaskA, TaskC>> /\ selected = Some(1)

\* C9: a digit key d in Viewing mode with the cursor on an existing record
\* leaves the cursor at min(d-1, len) and the previously selected record at
\* that position, from every starting cursor position.
C9_DigitSetsSlot ==
    \A d \in 1..6 : \A i \in 0..(MaxInit + MaxEvents) :
        (PressedInViewing(Ch(Digits[d])) /\ CursorWasOn(i)) =>
            LET slot == Min(d - 1, Len(last.tasks))
            IN /\ selected = Some(slot)
               /\ slot < Len(tasks)
               /\ tasks[slot + 1] = last.tasks[i + 1]

\* C10: repositioning the record at i to target i is a no-op: a digit key
\* whose slot is the cursor position (or the position right after it, which
\* the adjustment maps to it) leaves list and cursor unchanged, and the CLI
\* `move n n` (and `move n n+1`) leaves the order of the store unchanged.
C10_RepositionToSelfIsNoOp ==
    /\ (InSession /\ last.ev.type = "Key" /\ last.ev.k = "Char"
           /\ \E d \in 1..6 : last.ev.c = Digits[d]) =>
         \A d \in 1..6 : \A i \in 0..(MaxInit + MaxEvents) :
          (/\ PressedInViewing(Ch(Digits[d])) /\ CursorWasOn(i)
           /\ Min(d - 1, Len(last.tasks)) \in {i, i + 1}) =>
              /\ pc # "panicked"
              /\ tasks = last.tasks
              /\ selected = last.selected
    /\ (/\ pc = "cli" /\ last.ev.type = "CliMove"
        /\ InTaskRange(last.tasks, last.ev.task_num)
        /\ InTaskRange(last.tasks, last.ev.insert_before)
        /\ last.ev.insert_before \in {last.ev.task_num, last.ev.task_num + 1}) =>
              /\ tasks = last.tasks
              /\ read_open_tasks(store) = last.tasks
              /\ result # "Err" => store = write_open_tasks(last.tasks)

C10_Witness ==
    /\ PressedInViewing(Ch("2")) /\ CursorWasOn(1)
    /\ Len(last.tasks) = 3
    /\ tasks = last.tasks /\ selected = Some(1)
    /\ pc = "draw"

C10_WitnessCli ==
    /\ pc = "cli" /\ last.ev = CliMoveCmd(3, 3)
    /\ Len(last.tasks) = 3 /\ result = "Panic"
    /\ read_open_tasks(store) = last.tasks

----------------------------------------------------------------------------
(* Properties of the edit mode, the add key and the delete key *)

\* the last event arrived while a field was being edited
HandledInEditing ==
    /\ InSession
    /\ last.ev.type # "None"
    /\ last.editing.kind # "None"

LastIsPress(k) ==
    /\ last.ev.type = "Key" /\ last.ev.kind = "Press" /\ last.ev.k = k

IdsOf(ts) == [i \in 1..Len(ts) |-> ts[i].id]

\* the strings of ts with a ',' between consecutive ones
RECURSIVE JoinComma(_)
JoinComma(ts) ==
    IF ts = <<>> THEN <<>>
    ELSE IF Len(ts) = 1 THEN ts[1]
    ELSE ts[1] \o <<",">> \o JoinComma(Tail(ts))

CountCommas(str) == Cardinality({i \in 1..Len(str) : str[i] = ","})

\* C11: in Editing mode no event changes the cursor, the order or length of
\* the list, the help flag or the outcome; an event other than a character,
\* Backspace or Enter press changes nothing, and a character press (the
\* viewing-mode bindings included) is appended to the buffer.
C11_EditingSuppressesDispatch ==
    HandledInEditing =>
        /\ pc # "panicked"
        /\ selected = last.selected
        /\ IdsOf(tasks) = IdsOf(last.tasks)
        /\ show_help = last.show_help
        /\ exit = "Continue"
        /\ ~(LastIsPress("Char") \/ LastIsPress("Backspace") \/ LastIsPress("Enter"))
              => (tasks = last.tasks /\ editing = last.editing)
        /\ LastIsPress("Char")
              => /\ tasks = last.tasks
                 /\ editing.kind = last.editing.kind
                 /\ editing.idx = last.editing.idx
                 /\ editing.val = last.editing.val \o <<last.ev.c>>

C11_Witness ==
    /\ HandledInEditing /\ last.ev = Ch("q")
    /\ last.editing = Edit("Note", 0, <<>>)
    /\ editing = Edit("Note", 0, <<"q">>)
    /\ exit = "Continue" /\ pc = "draw"

\* C12: 'e', 'n', 't' in Viewing mode with the cursor on a record start an
\* edit bound to the cursor index and the field, the buffer being the
\* committed value of the field (the tags joined by ','); list and cursor
\* are unchanged.
C12_StartEditCapturesField ==
    (InSession /\ last.editing.kind = "None" /\ last.selected # None
       /\ last.ev \in {Ch("e"), Ch("n"), Ch("t")}
       /\ last.selected[1] < Len(last.tasks)) =>
        LET i == last.selected[1]
            t == last.tasks[i + 1]
        IN /\ tasks = last.tasks
           /\ selected = last.selected
           /\ last.ev = Ch("e") => editing = Edit("Desc", i, t.description)
           /\ last.ev = Ch("n") => editing = Edit("Note", i, t.note)
           /\ last.ev = Ch("t") => editing = Edit("Tags", i, JoinComma(t.tags))

C12_Witness ==
    /\ PressedInViewing(Ch("t")) /\ CursorWasOn(2)
    /\ last.tasks[3].tags = << <<"x">>, <<"y">> >>
    /\ editing = Edit("Tags", 2, <<"x", ",", "y">>)

\* C13: Enter in Editing mode on an existing target record returns to
\* Viewing and writes the buffer into the edited field, leaving the other
\* fields of the record, the other records, the order and the cursor
\* unchanged; typing before Enter leaves the committed list unchanged.
C13_CommitWritesField ==
    /\ (HandledInEditing /\ LastIsPress("Enter")
          /\ last.editing.idx < Len(last.tasks)) =>
        LET ed == last.editing
            old == last.tasks[ed.idx + 1]
            new == tasks[ed.idx + 1]
        IN /\ editing = EditNone
           /\ selected = last.selected
           /\ Len(tasks) = Len(last.tasks)
           /\ \A j \in 1..Len(tasks) : j # ed.idx + 1 => tasks[j] = last.tasks[j]
           /\ new.id = old.id /\ new.created = old.created /\ new.marked = old.marked
           /\ ed.kind = "Desc" => /\ new.description = ed.val
                                  /\ new.note = old.note /\ new.tags = old.tags
           /\ ed.kind = "Note" => /\ new.note = ed.val
                                  /\ new.description = old.description
                                  /\ new.tags = old.tags
           /\ ed.kind = "Tags" => /\ JoinComma(new.tags) = ed.val
                                  /\ new.description = old.description
                                  /\ new.note = old.note
    /\ (HandledInEditing /\ (LastIsPress("Char") \/ LastIsPress("Backspace")))
          => tasks = last.tasks

C13_Witness ==
    /\ HandledInEditing /\ LastIsPress("Enter")
    /\ last.editing = Edit("Desc", 0, <<"d", "x">>)
    /\ Len(last.tasks) = 3 /\ Len(tasks) = 3
    /\ last.tasks[1].description = <<"d">>
    /\ tasks[1].description = <<"d", "x">>
    /\ editing = EditNone

\* C14: committing a tag-list edit replaces the tags by the buffer split on
\* ',': one substring more than there are commas, none containing a comma,
\* joining back to the buffer, with nothing trimmed, deduplicated or
\* filtered; "x,y" gives ["x","y"] and the empty buffer gives [""].
C14_TagCommitSplitsLiterally ==
    (HandledInEditing /\ LastIsPress("Enter") /\ last.editing.kind = "Tags"
       /\ last.editing.idx < Len(last.tasks)) =>
        LET val == last.editing.val
            tags == tasks[last.editing.idx + 1].tags
        IN /\ Len(tags) = CountCommas(val) + 1
           /\ \A j \in 1..Len(tags) : CountCommas(tags[j]) = 0
           /\ JoinComma(tags) = val
           /\ val = <<>> => tags = << <<>> >>
           /\ val = <<"x", ",", "y">> => tags = << <<"x">>, <<"y">> >>

C14_Witness ==
    /\ HandledInEditing /\ LastIsPress("Enter")
    /\ last.editing = Edit("Tags", 0, <<>>)
    /\ Len(last.tasks) = 3 /\ Len(tasks) = 3
    /\ last.tasks[1].tags = <<>>
    /\ tasks[1].tags = << <<>> >>

C14_WitnessDuplicates ==
    /\ HandledInEditing /\ LastIsPress("Enter")
    /\ last.editing = Edit("Tags", 0, <<",">>)
    /\ Len(last.tasks) = 3 /\ Len(tasks) = 3
    /\ tasks[1].tags = << <<>>, <<>> >>

\* C15: there is no cancel transition: in Editing mode every event other
\* than an Enter press keeps the session in Editing with the same target
\* index and field, and Enter is the only way back to Viewing.
C15_NoCancel ==
    HandledInEditing =>
        /\ ~LastIsPress("Enter") => /\ editing.kind = last.editing.kind
                                    /\ editing.idx = last.editing.idx
        /\ LastIsPress("Enter") => editing = EditNone

C15_Witness ==
    /\ HandledInEditing /\ last.ev = Key("Esc", "")
    /\ last.editing.kind = "Note"
    /\ editing = last.editing
    /\ pc = "draw"

\* C16: 'a' in Viewing mode appends exactly one blank record (empty
\* description and note, no tags, no completion marker), leaves the existing
\* records and their order unchanged, puts the cursor on the new record and
\* starts an edit of its description with an empty buffer.
C16_AddAppendsBlank ==
    PressedInViewing(Ch("a")) =>
        LET n == Len(last.tasks)
        IN /\ Len(tasks) = n + 1
           /\ SubSeq(tasks, 1, n) = last.tasks
           /\ tasks[n + 1].description = <<>>
           /\ tasks[n + 1].note = <<>>
           /\ tasks[n + 1].tags = <<>>
           /\ tasks[n + 1].marked = None
           /\ selected = Some(n)
           /\ editing = Edit("Desc", n, <<>>)

C16_Witness ==
    /\ PressedInViewing(Ch("a"))
    /\ Len(last.tasks) = 3 /\ last.selected = Some(1)
    /\ Len(tasks) = 4 /\ selected = Some(3)
    /\ editing = Edit("Desc", 3, <<>>)

\* C17: 'D' in Viewing mode with the cursor on record i removes exactly that
\* record, keeps the others in order and leaves the cursor at most the new
\* length and on a row that is valid for the next key (on an existing
\* record, unless the list became empty).
C17_DeleteKeepsCursorValid ==
    (PressedInViewing(Ch("D")) /\ last.selected # None
       /\ last.selected[1] < Len(last.tasks)) =>
        LET i == last.selected[1]
        IN /\ tasks = SubSeq(last.tasks, 1, i)
                        \o SubSeq(last.tasks, i + 2, Len(last.tasks))
           /\ selected # None
           /\ selected[1] <= Len(tasks)
           /\ Len(tasks) > 0 => selected[1] < Len(tasks)

\* the last command was a finish that returned Ok
FinishedOk == pc = "cli" /\ last.ev.type = "CliFinish" /\ result = "Ok"

\* 1-based position of the record the last finish command was about
FinishedAt == FinishNum(last.tasks, last.ev.task_num)

\* C18: finish is idempotent: a second finish of a record, at the same or a
\* later clock value, leaves the completion timestamp of the first one, and
\* a never-finished record gets the clock value of the call that finishes
\* it; the finish command stores exactly that.
C18_FinishIdempotent ==
    /\ FinishedOk =>
        LET old == last.tasks[FinishedAt].marked
            wanted == IF old = None THEN Some(now) ELSE old
        IN /\ tasks[FinishedAt].marked = wanted
           /\ read_open_tasks(store)[FinishedAt].marked = wanted
    /\ pc = "cli" =>
         \A i \in 1..Len(tasks) :
           \A c1 \in now..MaxNow :
             /\ tasks[i].marked = None => finish(tasks[i], c1).marked = Some(c1)
             /\ \A c2 \in c1..MaxNow :
                  finish(finish(tasks[i], c1), c2) = finish(tasks[i], c1)

\* record B, finished when the clock read 1, is finished again at 3
C18_Witness ==
    /\ FinishedOk /\ Len(tasks) = 3 /\ FinishedAt = 2
    /\ tasks[2].id = "B"
    /\ last.tasks[2].marked = Some(1)
    /\ now = 3
    /\ read_open_tasks(store)[2].marked = Some(1)

C18_WitnessFirst ==
    /\ FinishedOk /\ last.ev.task_num = None /\ FinishedAt = 1
    /\ last.tasks[1].marked = None
    /\ now = 3
    /\ read_open_tasks(store)[1].marked = Some(3)

\* d is the done record of the open record t converted at clock value clock
CompletedAs(t, d, clock) ==
    /\ d.id = t.id
    /\ d.description = t.description
    /\ d.note = t.note
    /\ d.created = t.created
    /\ d.tags = t.tags
    /\ d.completed = IF t.marked = None THEN clock ELSE t.marked[1]

\* the last command was a sweep that wrote the done list
SweptDone == pc = "cli" /\ last.ev.type = "CliSweep" /\ doneStore # last.done

\* C19: complete turns an open record into a done record with the same id,
\* description, note, created and tags, completed at the marker's timestamp
\* when the record was finished and at the clock value of the conversion
\* when it was not; the done list a sweep writes holds such a record for
\* every finished record it read.
C19_CompleteKeepsFields ==
    /\ pc = "cli" =>
         /\ \A i \in 1..Len(tasks) :
              CompletedAs(tasks[i], complete(tasks[i], now), now)
         /\ \A i \in 1..Len(last.tasks) :
              CompletedAs(last.tasks[i], complete(last.tasks[i], now), now)
    /\ SweptDone =>
         \A i \in 1..Len(last.tasks) :
            is_finished(last.tasks[i]) =>
               \E j \in 1..Len(doneStore) :
                  CompletedAs(last.tasks[i], read_done_tasks(doneStore)[j], now)

\* a sweep at clock value 2 converts B, finished at 1 with a note and a tag
C19_Witness ==
    /\ SweptDone /\ result = "Ok"
    /\ now = 2
    /\ Len(last.tasks) = 3 /\ last.tasks[2] = InitTask(2)
    /\ \E j \in 1..Len(doneStore) :
         read_done_tasks(doneStore)[j] =
            [id |-> "B", description |-> <<"d">>, note |-> <<"n">>,
             created |-> 0, tags |-> << <<"x">> >>, completed |-> 1]
    /\ \E i \in 1..Len(tasks) :
         tasks[i].marked = None /\ complete(tasks[i], now).completed = 2

\* markers set in the list before are the same in the list after, for the
\* records still there
MarkersKept(before, after) ==
    \A i \in 1..Len(before), j \in 1..Len(after) :
        (is_finished(before[i]) /\ after[j].id = before[i].id) =>
            after[j].marked = before[i].marked

\* the marker a record of the initial store has, if it is there
InitMarkersKept(ts) ==
    \A j \in 1..Len(ts), i \in 1..MaxInit :
        (ts[j].id = Ids[i] /\ is_finished(InitTask(i))) =>
            ts[j].marked = InitTask(i).marked

\* C20: a completion marker, once set, is neither cleared nor changed while
\* its record stays in the open list: not by one session event or one
\* command (finish, move, bump, edit, sweep), not over a whole session, and
\* not in the store over any sequence of them.
C20_MarkerNeverCleared ==
    /\ MarkersKept(last.tasks, tasks)
    /\ MarkersKept(pre, tasks)
    /\ pc \in {"cli", "done"} => MarkersKept(pre, read_open_tasks(store))
    /\ pc = "cli" => /\ InitMarkersKept(tasks)
                     /\ InitMarkersKept(read_open_tasks(store))

\* the description of the finished record B is committed in a session
C20_Witness ==
    /\ HandledInEditing /\ LastIsPress("Enter")
    /\ last.editing.kind = "Desc" /\ last.editing.idx = 1
    /\ Len(tasks) = 3 /\ tasks[2].id = "B"
    /\ tasks[2].marked = Some(1)

\* the finished record B is moved to the top in a session
C20_WitnessReorder ==
    /\ PressedInViewing(Ch("=")) /\ last.selected = Some(1)
    /\ Len(tasks) = 3 /\ last.tasks[2].id = "B" /\ tasks[1].id = "B"
    /\ tasks[1].marked = Some(1)

\* record B, finished at 1, is bumped
C20_WitnessCli ==
    /\ pc = "cli" /\ last.ev.type = "CliBump" /\ result = "Ok"
    /\ Len(last.tasks) = 3 /\ last.tasks[2].id = "B"
    /\ last.tasks[2].marked = Some(1)
    /\ last.ev.task_num = <<2>>
    /\ read_open_tasks(store)[3].id = "B"
    /\ read_open_tasks(store)[3].marked = Some(1)

\* the loop of run_loop ended because an event set the exit value
LoopEndedByEvent ==
    InSession /\ exit # "Continue" /\ loopRes = "Ok"

\* C21 as stated: every processed event is followed by exactly one render,
\* so once the loop is past an event there is one more frame than events.
C21_EveryEventRendered ==
    LoopEndedByEvent => frames = nev + 1

\* what one step of a session may do to the event and frame counts and to
\* the state that is rendered
OneEventOrOneRender ==
    InSession =>
        /\ nev' \in {nev, nev + 1}
        /\ frames' \in {frames, frames + 1}
        /\ ~(nev' # nev /\ frames' # frames)
        /\ nev' = nev => UNCHANGED <<tasks, selected, exit, show_help, editing>>
        /\ frames' # frames => pc = "draw" /\ exit = "Continue"

\* C21 (amended): one event is handled per iteration and exactly one frame
\* is drawn before it, of the state the previous event left; an event that
\* leaves the session running is followed by one draw before the next event
\* is read, the event that ends the session by none; nothing but an event
\* changes the session state.
C21_OneRenderPerEvent ==
    /\ [](InSession =>
            /\ pc = "draw" => frames = nev
            /\ pc = "read" => frames = nev + 1
            /\ exit # "Continue" => frames = nev
            /\ frames \in {nev, nev + 1})
    /\ [][OneEventOrOneRender]_vars

\* two events were handled and the third frame shows what they left
C21_Witness ==
    /\ InSession /\ pc = "read" /\ nev = 2 /\ frames = 3
    /\ last.ev = Ch("?") /\ last.show_help = TRUE /\ show_help = FALSE

\* drawing a frame or reading an event failed and Move::run has returned
IoErrorReturned ==
    InSession /\ loopRes = "Err" /\ pc \in {"returned", "done"}

\* C22: when drawing a frame or reading an event fails, Move::run returns
\* an error after restoring the terminal and move_interactive propagates it
\* without writing, so the store is what it was before the session.
C22_IoErrorRestoresAndKeepsStore ==
    IoErrorReturned =>
        /\ runRes = "Err"
        /\ ~altScreen /\ ~rawMode
        /\ store = Serialise(pre)
        /\ pc = "done" => result = "Err"

\* the part of C22 about the result and the store
C22_StoreKeptOnIoError ==
    IoErrorReturned =>
        /\ runRes = "Err"
        /\ store = Serialise(pre)
        /\ pc = "done" => result = "Err"

\* a read fails after a record was deleted; the terminal was restored
C22_StoreKeptWitness ==
    /\ IoErrorReturned /\ pc = "done" /\ result = "Err"
    /\ ~altScreen /\ ~rawMode
    /\ Len(pre) = 3 /\ Len(tasks) = 2 /\ store = Serialise(pre)

\* no string occurs twice in the sequence
Distinct(seq) ==
    \A i \in 1..Len(seq), j \in 1..Len(seq) : seq[i] = seq[j] => i = j

\* C23: the tags of every task, in the session's list and in both stored
\* lists, hold no string twice, after any sequence of CLI edits and
\* interactive tag-list edits.
C23_TagsDistinct ==
    /\ \A i \in 1..Len(tasks) : Distinct(tasks[i].tags)
    /\ \A i \in 1..Len(store) : Distinct(read_open_tasks(store)[i].tags)
    /\ \A i \in 1..Len(doneStore) : Distinct(read_done_tasks(doneStore)[i].tags)

\* the part of C23 about the command line: add_tag rejects duplicates
C23_CliTagsDistinct ==
    pc = "cli" => C23_TagsDistinct

\* '+x' given for record B, which has the tag x already
C23_CliWitness ==
    /\ pc = "cli" /\ last.ev.type = "CliEdit" /\ result = "Ok"
    /\ last.ev.id = "B"
    /\ last.ev.args.tags = <<AddTag(<<"x">>), NegTag(<<"y">>)>>
    /\ Len(tasks) = 3 /\ tasks[2].tags = << <<"x">> >>

\* the keys the viewing dispatch of handle_events has an arm for
MappedChars == {"q", "X", "=", "-", "1", "2", "3", "4", "5", "6", "D", "a",
                "?", "e", "n", "t"}
MappedCodes == {"Up", "Down", "Home", "End"}

\* the last event arrived in Viewing mode and has no arm: it is no key
\* press, or a press of a key the dispatch does not name
IgnoredInViewing ==
    /\ InSession
    /\ last.ev.type # "None"
    /\ last.editing.kind = "None"
    /\ \/ ~(last.ev.type = "Key" /\ last.ev.kind = "Press")
       \/ /\ last.ev.k \notin MappedCodes
          /\ ~(last.ev.k = "Char" /\ last.ev.c \in MappedChars)

\* C24: in Viewing mode an unmapped key, an event that is no key event and
\* a key event that is no press leave list, cursor, edit mode, help flag and
\* outcome as they were; '?' flips the help flag and nothing else, so a
\* second '?' gives back the state before the first.
C24_IgnoredEventsAndHelp ==
    /\ IgnoredInViewing =>
        /\ tasks = last.tasks /\ selected = last.selected
        /\ editing = last.editing /\ show_help = last.show_help
        /\ exit = last.exit
    /\ PressedInViewing(Ch("?")) =>
        /\ show_help = ~last.show_help
        /\ tasks = last.tasks /\ selected = last.selected
        /\ editing = last.editing /\ exit = last.exit

\* a release of 'q' is dropped after the cursor was moved down
C24_Witness ==
    /\ IgnoredInViewing
    /\ last.ev = [type |-> "Key", kind |-> "Release", k |-> "Char", c |-> "q"]
    /\ last.selected = Some(1) /\ selected = Some(1)
    /\ exit = "Continue" /\ pc = "draw"

\* '?' pressed a second time: the help flag is back to off
C24_WitnessHelpTwice ==
    /\ PressedInViewing(Ch("?")) /\ nev = 2
    /\ last.show_help /\ ~show_help
    /\ tasks = pre /\ selected = Some(0)

C24_WitnessUnmapped ==
    /\ IgnoredInViewing /\ last.ev = Key("Esc", "")
    /\ Len(tasks) = 2 /\ pc = "draw"

\* the last command was `move n m` with both numbers in range and n # m
MovedApart ==
    /\ pc = "cli" /\ last.ev.type = "CliMove"
    /\ InTaskRange(last.tasks, last.ev.task_num)
    /\ InTaskRange(last.tasks, last.ev.insert_before)
    /\ last.ev.task_num # last.ev.insert_before

\* 1-based position of record t in ts (the ids are distinct)
PositionOf(ts, t) == CHOOSE p \in 1..Len(ts) : ts[p] = t

\* C25: `move n m` with n and m in 1..=len and n # m returns without a
\* panic, and when it returns Ok the stored list has the record that was
\* number n immediately before the record that was number m, with the other
\* records in their old relative order; when the write fails the store is
\* as before.
C25_CliMoveBefore ==
    MovedApart =>
        LET old == last.tasks
            new == read_open_tasks(store)
            moved == old[last.ev.task_num]
            target == old[last.ev.insert_before]
        IN /\ result \in {"Ok", "Err"}
           /\ result = "Err" => new = old
           /\ result = "Ok" =>
                /\ Len(new) = Len(old)
                /\ \E p \in 1..(Len(new) - 1) :
                     /\ new[p] = moved
                     /\ new[p + 1] = target
                     /\ VecRemove(new, p - 1) = VecRemove(old, last.ev.task_num - 1)

\* `move 1 3` on [A, B, C] stores [B, A, C]
C25_Witness ==
    /\ MovedApart /\ result = "Ok"
    /\ last.ev.task_num = 1 /\ last.ev.insert_before = 3
    /\ IdsOf(last.tasks) = <<"A", "B", "C">>
    /\ IdsOf(read_open_tasks(store)) = <<"B", "A", "C">>

\* `move 3 1` on [A, B, C] stores [C, A, B]
C25_WitnessBack ==
    /\ MovedApart /\ result = "Ok"
    /\ last.ev.task_num = 3 /\ last.ev.insert_before = 1
    /\ IdsOf(last.tasks) = <<"A", "B", "C">>
    /\ IdsOf(read_open_tasks(store)) = <<"C", "A", "B">>

\* the last command was a bump of numbers that are all in range
BumpedInRange ==
    /\ pc = "cli" /\ last.ev.type = "CliBump"
    /\ \A i \in 1..Len(last.ev.task_num) :
          InTaskRange(last.tasks, last.ev.task_num[i])

\* the elements of ts at the 1-based positions in P, in the order of ts
Restrict(ts, P) ==
    LET F[i \in 0..Len(ts)] ==
            IF i = 0 THEN <<>>
            ELSE IF i \in P THEN Append(F[i - 1], ts[i]) ELSE F[i - 1]
    IN F[Len(ts)]

\* C26: a bump of a set N of task numbers in range (given in any order,
\* with or without repeats) that returns Ok leaves the records that were at
\* the numbers in N at the end of the stored list, after all the other
\* records in their old relative order; a single number puts its record
\* last.
C26_BumpMovesToEnd ==
    (BumpedInRange /\ result = "Ok") =>
        LET old == last.tasks
            new == read_open_tasks(store)
            N == {last.ev.task_num[i] : i \in 1..Len(last.ev.task_num)}
            k == Cardinality(N)
        IN /\ Len(new) = Len(old)
           /\ SubSeq(new, 1, Len(old) - k) = Restrict(old, (1..Len(old)) \ N)
           /\ {new[i] : i \in (Len(old) - k + 1)..Len(old)} = {old[n] : n \in N}
           /\ k = 1 => new[Len(new)] = old[last.ev.task_num[1]]

\* `bump 1 2` on [A, B, C] stores C first, then the two bumped records
C26_Witness ==
    /\ BumpedInRange /\ result = "Ok"
    /\ last.ev.task_num = <<1, 2>>
    /\ IdsOf(last.tasks) = <<"A", "B", "C">>
    /\ IdsOf(read_open_tasks(store)) = <<"C", "B", "A">>

\* `bump 2 2` bumps record B once
C26_WitnessRepeat ==
    /\ BumpedInRange /\ result = "Ok"
    /\ last.ev.task_num = <<2, 2>>
    /\ IdsOf(last.tasks) = <<"A", "B", "C">>
    /\ IdsOf(read_open_tasks(store)) = <<"A", "C", "B">>

\* the last command was a sweep that returned Ok
SweptOk == pc = "cli" /\ last.ev.type = "CliSweep" /\ result = "Ok"

\* the 1-based positions of the unfinished records of ts
UnfinishedAt(ts) == {i \in 1..Len(ts) : ~is_finished(ts[i])}

\* C27: after a sweep that returned Ok the stored open list is the old
\* unfinished records in their old order; every old finished record is in
\* the stored done list, completed at its marker; the old done records are
\* all still there and nothing else is; and the done list goes from the
\* most recent completion to the oldest.
C27_SweepMigratesFinished ==
    SweptOk =>
        LET old == last.tasks
            oldDone == read_done_tasks(last.done)
            open == read_open_tasks(store)
            done == read_done_tasks(doneStore)
        IN /\ open = Restrict(old, UnfinishedAt(old))
           /\ \A i \in 1..Len(open) : ~is_finished(open[i])
           /\ \A i \in 1..Len(old) :
                is_finished(old[i]) =>
                   \E j \in 1..Len(done) :
                      /\ done[j].id = old[i].id
                      /\ done[j].completed = old[i].marked[1]
           /\ \A i \in 1..Len(oldDone) : \E j \in 1..Len(done) : done[j] = oldDone[i]
           /\ Len(done) = Len(oldDone) + Len(old) - Len(open)
           /\ \A i \in 1..Len(done), j \in 1..Len(done) :
                i < j => done[i].completed >= done[j].completed

\* [A, B, C] with B finished at 1 and Z done at 0: open [A, C], done [B, Z]
C27_Witness ==
    /\ SweptOk
    /\ IdsOf(last.tasks) = <<"A", "B", "C">>
    /\ IdsOf(read_done_tasks(last.done)) = <<"Z">>
    /\ IdsOf(read_open_tasks(store)) = <<"A", "C">>
    /\ IdsOf(read_done_tasks(doneStore)) = <<"B", "Z">>

\* the last command was an edit
Edited == pc = "cli" /\ last.ev.type = "CliEdit"

\* new is old with every '+tag' of fts that was missing added and every
\* '/tag' of fts removed
TagsEdited(old, new, fts) ==
    LET Added == {fts[i].tag : i \in {k \in 1..Len(fts) : ~fts[k].neg}}
        Removed == {fts[i].tag : i \in {k \in 1..Len(fts) : fts[k].neg}}
        Old == {old[i] : i \in 1..Len(old)}
        New == {new[i] : i \in 1..Len(new)}
    IN /\ New = (Old \cup Added) \ Removed
       /\ Distinct(new)

\* ts2 is ts1 with at most the record of the id changed
OnlyIdChanged(ts1, ts2, id) ==
    /\ Len(ts2) = Len(ts1)
    /\ \A i \in 1..Len(ts1) : ts1[i].id # id => ts2[i] = ts1[i]

\* C28: an edit that returns Ok has added each '+tag' that was missing and
\* removed each '/tag' from the tags of the task with the id, in the open
\* list or in the done list, and changed no other task; for an id in
\* neither list it returns an error and changes nothing.
C28_EditAddsAndRemovesTags ==
    Edited =>
        LET id == last.ev.id
            fts == last.ev.args.tags
            old == last.tasks
            oldDone == read_done_tasks(last.done)
            open == read_open_tasks(store)
            done == read_done_tasks(doneStore)
            i == FindId(old, id)
            j == FindId(oldDone, id)
        IN /\ OnlyIdChanged(old, open, id)
           /\ OnlyIdChanged(oldDone, done, id)
           /\ (i = 0 /\ j = 0) =>
                result = "Err" /\ open = old /\ done = oldDone
           /\ (i # 0 /\ result = "Ok") =>
                TagsEdited(old[i].tags, open[i].tags, fts) /\ done = oldDone
           /\ (i = 0 /\ j # 0 /\ result = "Ok") =>
                TagsEdited(oldDone[j].tags, done[j].tags, fts) /\ open = old

\* the part of C28 about a task of the open list and about a missing id
C28_OpenEdit ==
    Edited =>
        LET id == last.ev.id
            old == last.tasks
            open == read_open_tasks(store)
            i == FindId(old, id)
        IN /\ OnlyIdChanged(old, open, id)
           /\ OnlyIdChanged(read_done_tasks(last.done),
                            read_done_tasks(doneStore), id)
           /\ (i = 0 /\ FindId(read_done_tasks(last.done), id) = 0) =>
                result = "Err" /\ store = Serialise(old) /\ doneStore = last.done
           /\ (i # 0 /\ result = "Ok") =>
                /\ TagsEdited(old[i].tags, open[i].tags, last.ev.args.tags)
                /\ doneStore = last.done

\* '+z /x' on the open record B, whose tags were [x]
C28_OpenWitness ==
    /\ Edited /\ result = "Ok" /\ last.ev.id = "B"
    /\ last.ev.args.tags = <<AddTag(<<"z">>), NegTag(<<"x">>)>>
    /\ Len(last.tasks) = 3 /\ last.tasks[2].tags = << <<"x">> >>
    /\ read_open_tasks(store)[2].tags = << <<"z">> >>

\* an id in neither list
C28_MissingWitness ==
    /\ Edited /\ result = "Err" /\ last.ev.id = "Q"
    /\ Len(last.tasks) = 3 /\ store = Serialise(last.tasks)
    /\ Len(last.done) = 1 /\ doneStore = last.done

\* the ids of the records of a list
IdSet(ts) == {ts[i].id : i \in 1..Len(ts)}

\* C29: after a sweep has returned, with Ok or with the error of either
\* write, no id is in both the stored open list and the stored done list.
C29_SweepKeepsListsDisjoint ==
    (pc = "cli" /\ last.ev.type = "CliSweep") =>
        IdSet(read_open_tasks(store)) \cap IdSet(read_done_tasks(doneStore)) = {}

\* the part of C29 about a sweep that returned Ok, run on disjoint lists
C29_DisjointAfterOk ==
    (SweptOk /\ IdSet(last.tasks) \cap IdSet(read_done_tasks(last.done)) = {}) =>
        IdSet(read_open_tasks(store)) \cap IdSet(read_done_tasks(doneStore)) = {}

ReorderKeys == {"=", "-", "1", "2", "3", "4", "5", "6"}

\* the last event was a reorder key pressed in Viewing mode with the cursor
\* on an existing record
Reordered ==
    /\ InSession
    /\ last.editing.kind = "None"
    /\ last.ev.type = "Key" /\ last.ev.kind = "Press"
    /\ last.ev.k = "Char" /\ last.ev.c \in ReorderKeys
    /\ last.selected # None
    /\ last.selected[1] < Len(last.tasks)

\* C30: a reorder key ('=', '-', '1'..'6') pressed in Viewing mode with the
\* cursor on an existing record does not panic and adds, removes and alters
\* no record: the cursor is afterwards on the record that was selected, and
\* the other records are the same ones in the same relative order.
C30_ReorderIsPermutation ==
    Reordered =>
        /\ pc # "panicked"
        /\ Len(tasks) = Len(last.tasks)
        /\ selected # None
        /\ selected[1] < Len(tasks)
        /\ tasks[selected[1] + 1] = last.tasks[last.selected[1] + 1]
        /\ VecRemove(tasks, selected[1]) = VecRemove(last.tasks, last.selected[1])
        /\ editing = last.editing /\ exit = last.exit
        /\ show_help = last.show_help

\* '3' with the cursor on A of [A, B, C]: [B, A, C] with the cursor on A
C30_Witness ==
    /\ Reordered /\ last.ev.c = "3"
    /\ IdsOf(last.tasks) = <<"A", "B", "C">> /\ last.selected = Some(0)
    /\ IdsOf(tasks) = <<"B", "A", "C">> /\ selected = Some(1)

----------------------------------------------------------------------------
(* Properties of the edit buffer, the move command and the edit target *)

\* C31: in Editing mode a character press appends exactly that character to
\* the end of the buffer, a Backspace press removes exactly the last
\* character of a non-empty buffer and leaves an empty buffer empty; neither
\* changes the target index, the field or any record, and Backspace after a
\* character restores the buffer.
C31_CharAndBackspace ==
    /\ (HandledInEditing /\ LastIsPress("Char")) =>
          /\ editing = [last.editing EXCEPT !.val = last.editing.val \o <<last.ev.c>>]
          /\ tasks = last.tasks
    /\ (HandledInEditing /\ LastIsPress("Backspace")) =>
          /\ editing.kind = last.editing.kind
          /\ editing.idx = last.editing.idx
          /\ tasks = last.tasks
          /\ last.editing.val = <<>> => editing.val = <<>>
          /\ last.editing.val # <<>> =>
                /\ Len(editing.val) = Len(last.editing.val) - 1
                /\ editing.val \o <<last.editing.val[Len(last.editing.val)]>>
                      = last.editing.val
    /\ (InSession /\ is_editing) =>
          \A c \in Chars : pop_char(push_char(editing, c)) = editing

\* Backspace after 'q' typed behind the description "d" gives "d" again
C31_Witness ==
    /\ HandledInEditing /\ LastIsPress("Backspace")
    /\ last.editing = Edit("Desc", 0, <<"d", "q">>)
    /\ editing = Edit("Desc", 0, <<"d">>)
    /\ tasks = last.tasks /\ tasks[1].description = <<"d">>

\* Backspace on an empty buffer
C31_WitnessEmpty ==
    /\ HandledInEditing /\ LastIsPress("Backspace")
    /\ last.editing.val = <<>> /\ editing = last.editing
    /\ editing.kind = "Note"

\* the last command was a CLI move of task number n before task number m
CliMoveRan ==
    /\ pc = "cli" /\ last.ev.type = "CliMove"

\* C32: the CLI move command ends without an index failure for every pair of
\* task numbers inside 1..len (n = m = len and a one-element list included),
\* and returns an error without writing the store when either number is
\* outside 1..len.
C32_CliMoveCompletes ==
    CliMoveRan =>
        IF InTaskRange(last.tasks, last.ev.task_num)
              /\ InTaskRange(last.tasks, last.ev.insert_before)
        THEN result # "Panic"
        ELSE result = "Err" /\ read_open_tasks(store) = last.tasks

\* the part of C32 the code keeps: a number outside 1..len gives an error
\* and no write, and the index failure arises only for n = m = len
C32_PanicOnlyForLastOntoItself ==
    CliMoveRan =>
        /\ (~InTaskRange(last.tasks, last.ev.task_num)
               \/ ~InTaskRange(last.tasks, last.ev.insert_before))
              => (result = "Err" /\ read_open_tasks(store) = last.tasks)
        /\ result = "Panic" =>
              /\ last.ev.task_num = Len(last.tasks)
              /\ last.ev.insert_before = Len(last.tasks)
              /\ read_open_tasks(store) = last.tasks

\* `move 1 1` on a one-element list fails on tasks[before + 1]
C32_PanicWitness ==
    /\ CliMoveRan /\ last.ev = CliMoveCmd(1, 1)
    /\ Len(last.tasks) = 1 /\ result = "Panic"

\* `move 0 1` is rejected and nothing is written
C32_RangeWitness ==
    /\ CliMoveRan /\ last.ev = CliMoveCmd(0, 1)
    /\ Len(last.tasks) = 2 /\ result = "Err"
    /\ read_open_tasks(store) = last.tasks

\* the last event was the Enter that commits an edit of field `kind` of an
\* existing record whose buffer still holds the value captured at the start
CommittedUntyped(kind) ==
    /\ HandledInEditing /\ LastIsPress("Enter")
    /\ last.editing.kind = kind
    /\ last.editing.idx < Len(last.tasks)
    /\ last.editing =
          (IF kind = "Desc"
              THEN start_editing_desc(last.tasks, Some(last.editing.idx))
           ELSE IF kind = "Note"
              THEN start_editing_note(last.tasks, Some(last.editing.idx))
           ELSE start_editing_tags(last.tasks, Some(last.editing.idx)))

\* no tag of the list holds a ','
CommaFree(tags) ==
    \A i \in 1..Len(tags) : \A j \in 1..Len(tags[i]) : tags[i][j] # ","

\* C33: starting an edit of the description, the note or the tag list of a
\* record and pressing Enter at once leaves that record unchanged; a record
\* with an empty tag list still has an empty tag list afterwards.
C33_UntypedCommitKeepsRecord ==
    \A kind \in {"Desc", "Note", "Tags"} :
        CommittedUntyped(kind) => tasks = last.tasks

\* C33 (amended): an edit of the description or the note committed at once
\* leaves the record unchanged; an edit of the tag list committed at once
\* leaves a non-empty list of comma-free tags unchanged and turns an empty
\* tag list into the list holding the empty string alone; no other field
\* and no other record changes.
C33_UntypedCommitSplitsJoin ==
    /\ (CommittedUntyped("Desc") \/ CommittedUntyped("Note")) =>
          tasks = last.tasks
    /\ CommittedUntyped("Tags") =>
          LET i == last.editing.idx + 1
              old == last.tasks[i].tags
          IN /\ Len(tasks) = Len(last.tasks)
             /\ \A k \in 1..Len(tasks) : k # i => tasks[k] = last.tasks[k]
             /\ tasks[i] = [last.tasks[i] EXCEPT !.tags = tasks[i].tags]
             /\ old = <<>> => tasks[i].tags = << <<>> >>
             /\ (old # <<>> /\ CommaFree(old)) => tasks[i].tags = old

\* 't' then Enter on A, which has no tags: A ends with the tag ""
C33_Witness ==
    /\ CommittedUntyped("Tags") /\ nev = 2
    /\ last.editing.idx = 0
    /\ last.tasks[1] = InitTask(1)
    /\ tasks[1] = [InitTask(1) EXCEPT !.tags = << <<>> >>]

\* End, 't', Enter on C, whose tags are x and y
C33_WitnessKept ==
    /\ CommittedUntyped("Tags") /\ nev = 3
    /\ last.editing.idx = 2
    /\ last.tasks[3].tags = << <<"x">>, <<"y">> >>
    /\ tasks = last.tasks

\* Down, 'n', Enter on B, whose note is "n"
C33_WitnessNote ==
    /\ CommittedUntyped("Note") /\ nev = 3
    /\ last.editing.idx = 1 /\ last.tasks[2].note = <<"n">>
    /\ tasks = last.tasks

\* C34: whenever the session is in Editing mode the index the buffer is bound
\* to refers to an existing record (index < len), so every commit writes its
\* buffer into a record and no typed text is dropped.
C34_EditTargetExists ==
    /\ (InSession /\ is_editing) => editing.idx < Len(tasks)
    /\ (HandledInEditing /\ LastIsPress("Enter")) =>
          /\ last.editing.idx < Len(last.tasks)
          /\ CommitTask(last.tasks[last.editing.idx + 1], last.editing)
                = tasks[last.editing.idx + 1]

\* what the code keeps of C34: the target index never exceeds len, it equals
\* the cursor, and a commit bound to index len changes no record
C34_EditTargetAtMostLen ==
    /\ (InSession /\ is_editing) =>
          (editing.idx <= Len(tasks) /\ selected = Some(editing.idx))
    /\ (HandledInEditing /\ LastIsPress("Enter")
          /\ last.editing.idx >= Len(last.tasks)) => tasks = last.tasks

\* on an empty list 'e', 'q', Enter: the typed "q" reaches no record
C34_DroppedWitness ==
    /\ HandledInEditing /\ LastIsPress("Enter")
    /\ last.tasks = <<>> /\ last.editing = Edit("Desc", 0, <<"q">>)
    /\ tasks = <<>> /\ editing = EditNone

\* Down on the one-element list, then 'n': the edit is bound to index 1 = len
C34_PastEndWitness ==
    /\ InSession /\ is_editing
    /\ Len(tasks) = 1 /\ editing = Edit("Note", 1, <<>>)
    /\ selected = Some(1)

====
